---- MODULE Spec2Model ----
(***************************************************************************)
(* The realtime layer of the pair-trading dashboard: the useWebSocket hook *)
(* (connection manager) and the RealtimeProvider (state synchronizer).     *)
(*                                                                         *)
(* React state is modelled as a committed value (what the closures of the  *)
(* last render captured) and a pending value (the value after the queued   *)
(* setState calls); Render commits the pending values and flushes the      *)
(* effects whose dependencies changed.  Refs are plain variables.          *)
(***************************************************************************)
EXTENDS Integers, Sequences, FiniteSets, TLC

\* ---------------------------------------------------------------- bounds
\* The host opens at most MaxSockets transports in a run of the whole hook: a
\* further new WebSocket(url) throws (the catch of connect).
MaxSockets == 2
\* The same limit in the runs with an unreachable endpoint and no caller,
\* long enough for the reconnect attempts to run out.
BackoffSockets == 7
\* The same limit in the runs of the synchronizer, which needs one feed.
SyncSockets == 1
\* Explicit connect() / disconnect() calls of the hook's caller in one run.
MaxCalls == 1
\* Envelopes the transport delivers between two renders.
MaxBurst == 2
\* Payloads the feed delivers in a run of the synchronizer, and in a run of
\* alerts only (more than the alerts the reducer keeps).
MaxFeed == 2
AlertFeed == 52
\* Readings of the host clock.
MaxClock == 1

\* ------------------------------------------------------ program constants
maxReconnectAttempts == 5
NormalClosure == 1000
KeepAlerts == 49

RECURSIVE Pow2(_)
Pow2(n) == IF n = 0 THEN 1 ELSE 2 * Pow2(n - 1)

Max(a, b) == IF a >= b THEN a ELSE b
Sockets == 1..Max(MaxSockets, Max(BackoffSockets, SyncSockets))
\* WebSocket.readyState, and NONE for a transport not created yet.
ReadyStates == {"NONE", "CONNECTING", "OPEN", "CLOSING", "CLOSED"}
\* Codes a close event carries: 1000, or 1006 for a failed or lost connection.
CloseCodes == {NormalClosure, 1006}
NoError == "null"

VARIABLES
  \* the transports the hook created (host objects)
  rs,                   \* readyState of each transport
  closing,              \* the code of the close event a CLOSING transport will fire
  hostLimit,            \* how many transports the host lets the page create
  \* useWebSocket: React state, committed and pending
  socket, socketNext,
  isConnected, isConnectedNext,
  connectionError, connectionErrorNext,
  lastMessage, lastMessageQueue,
  \* useWebSocket: refs and timers
  reconnectTimeoutRef,  \* the transport whose close created the stored timer, 0: null
  reconnectAttemptsRef,
  timers,               \* pending reconnect timeouts, named by the transport whose close set them
  pingIntervals,        \* transports whose heartbeat interval is live
  \* RealtimeProvider: reducer state; the host's clock and notification permission
  state,
  now,
  permission,           \* "absent": no Notification API, else Notification.permission
  feed,                 \* payloads the feed has still to deliver
  \* observation of the run (not program state)
  last,                 \* the last operation: what it returned, sent and applied
  calls,                \* explicit connect() / disconnect() calls so far
  mode,                 \* "auto", "stopped" (disconnect during backoff), "exhausted"
  sinceOpen             \* a transport has opened and no reconnect was scheduled since

connVars == <<rs, closing, hostLimit, socket, socketNext, isConnected, isConnectedNext,
              connectionError, connectionErrorNext, reconnectTimeoutRef,
              reconnectAttemptsRef, timers, pingIntervals>>
msgVars == <<lastMessage, lastMessageQueue>>
syncVars == <<state, now, permission, feed>>
obsVars == <<last, calls, mode, sinceOpen>>
vars == <<connVars, msgVars, syncVars, obsVars>>

\* ------------------------------------------------------------- helpers
Live(r) == {s \in Sockets : r[s] \in {"CONNECTING", "OPEN"}}
Closed(r) == {s \in Sockets : r[s] = "CLOSED"}
NumCreated(r) == Cardinality({s \in Sockets : r[s] # "NONE"})

\* What the last operation did: its argument, result and exception
\* (sendMessage), the frames it sent, how often it called connect(), the delay
\* in ms of the timeout it set (ws.onclose), and for an
\* operation of the synchronizer the reducer state before it, the envelopes
\* that waited in the lastMessage state, the ones it handed to
\* handleWebSocketMessage and the notifications it showed.
Obs(op) == [op |-> op, arg |-> <<>>, ret |-> FALSE, threw |-> FALSE, sent |-> <<>>,
            connects |-> 0, delay |-> 0, before |-> <<>>, waiting |-> <<>>,
            applied |-> <<>>, notified |-> <<>>]

\* JSON.stringify / JSON.parse: a wire payload is JSON text of a value, or text
\* that is no JSON.
JSONstringify(v) == [text |-> "json", value |-> v]
JSONparse(p) == IF p.text = "json" THEN [threw |-> FALSE, value |-> p.value]
                ELSE [threw |-> TRUE, value |-> p.value]

\* The part of the hook's state that connect() and disconnect() read and write.
Conn == [rs |-> rs, closing |-> closing, timers |-> timers,
         ref |-> reconnectTimeoutRef, socketNext |-> socketNext,
         errorNext |-> connectionErrorNext]

\* WebSocket.close(code): nothing on a CLOSING or CLOSED transport; a transport
\* still CONNECTING fails (its close event carries 1006); an OPEN one starts the
\* closing handshake, which the peer answers with the same code.
wsClose(c, s, code) ==
  CASE c.rs[s] = "CONNECTING" -> [c EXCEPT !.rs[s] = "CLOSING", !.closing[s] = 1006]
    [] c.rs[s] = "OPEN"       -> [c EXCEPT !.rs[s] = "CLOSING", !.closing[s] = code]
    [] OTHER                  -> c

\* connect(): new WebSocket(url), the handlers, setSocket(ws); no guard on an
\* existing transport.  The constructor throwing is caught.
connect(c) ==
  IF NumCreated(c.rs) < hostLimit
  THEN LET ws == NumCreated(c.rs) + 1
       IN  [c EXCEPT !.rs[ws] = "CONNECTING", !.socketNext = ws]
  ELSE [c EXCEPT !.errorNext = "Failed to create WebSocket connection"]

\* disconnect() of the render whose socket state was sock.
disconnect(c, sock) ==
  LET c1 == IF c.ref # 0 THEN [c EXCEPT !.timers = @ \ {c.ref}] ELSE c
  IN  IF sock # 0 THEN wsClose(c1, sock, NormalClosure) ELSE c1

\* WebSocket.send(data): throws on a CONNECTING transport, transmits on an
\* OPEN one, discards on a CLOSING or CLOSED one.
wsSend(sock, data) ==
  CASE rs[sock] = "CONNECTING" -> [threw |-> TRUE, sent |-> <<>>]
    [] rs[sock] = "OPEN"       -> [threw |-> FALSE, sent |-> <<[sock |-> sock, data |-> data]>>]
    [] OTHER                   -> [threw |-> FALSE, sent |-> <<>>]

\* A plausible slip: the handle is tested, its readyState is not.
sendMessageUnguarded(sock, message) ==
  IF sock # 0
  THEN LET w == wsSend(sock, JSONstringify(message))
       IN  [ret |-> ~w.threw, threw |-> w.threw, sent |-> w.sent]
  ELSE [ret |-> FALSE, threw |-> FALSE, sent |-> <<>>]

\* sendMessage(message) of the render whose socket state was sock: what it
\* returns, throws and sends.
sendMessage(sock, message) ==
  IF sock # 0 /\ rs[sock] = "OPEN"
  THEN LET w == wsSend(sock, JSONstringify(message))
       IN  [ret |-> ~w.threw, threw |-> w.threw, sent |-> w.sent]
  ELSE [ret |-> FALSE, threw |-> FALSE, sent |-> <<>>]

SetConn(c) ==
  /\ rs' = c.rs
  /\ closing' = c.closing
  /\ timers' = c.timers
  /\ reconnectTimeoutRef' = c.ref
  /\ socketNext' = c.socketNext
  /\ connectionErrorNext' = c.errorNext

\* ------------------------------------------------------------ the reducer
\* A JavaScript object is a function from its keys; {} is the empty function.
Undefined == "undefined"
Get(obj, k) == IF k \in DOMAIN obj THEN obj[k] ELSE Undefined
\* { ...a, ...b }
Spread(a, b) == [k \in (DOMAIN a) \cup (DOMAIN b) |-> IF k \in DOMAIN b THEN b[k] ELSE a[k]]
\* { ...obj, [k]: v }
With(obj, k, v) == [x \in (DOMAIN obj) \cup {k} |-> IF x = k THEN v ELSE obj[x]]
\* arr.slice(0, n)
SliceFront(arr, n) == SubSeq(arr, 1, IF Len(arr) < n THEN Len(arr) ELSE n)

initialState == [pairs |-> <<>>, alerts |-> <<>>, prices |-> <<>>,
                 systemStatus |-> [monitoring |-> FALSE, connections |-> 0]]

\* A plausible slip: slice(0, 50) keeps 50 older alerts beside the new one.
AddAlertKeepsOneMore(alerts, payload) == <<payload>> \o SliceFront(alerts, KeepAlerts + 1)

\* [action.payload, ...state.alerts.slice(0, 49)]
AddAlert(alerts, payload) == <<payload>> \o SliceFront(alerts, KeepAlerts)

realtimeReducer(st, action) ==
  CASE action.type = "UPDATE_PAIR" ->
         [st EXCEPT !.pairs =
            With(st.pairs, action.payload.pair_id,
                 Spread(IF action.payload.pair_id \in DOMAIN st.pairs
                        THEN st.pairs[action.payload.pair_id] ELSE <<>>,
                        action.payload))]
    [] action.type = "ADD_ALERT" ->
         [st EXCEPT !.alerts = AddAlert(st.alerts, action.payload)]
    [] action.type = "UPDATE_PRICE" ->
         [st EXCEPT !.prices = With(st.prices, action.payload.symbol, action.payload)]
    [] action.type = "UPDATE_SYSTEM_STATUS" ->
         [st EXCEPT !.systemStatus =
            Spread(st.systemStatus,
                   IF "payload" \in DOMAIN action THEN action.payload ELSE <<>>)]
    [] action.type = "CLEAR_ALERTS" ->
         [st EXCEPT !.alerts = <<>>]
    [] OTHER -> st

\* new Date(text): the instant an ISO-8601 text names.
ISOInstant == [x \in {"2024-09-26T10:30:15Z"} |-> 1727346615]
newDate(text) == IF text \in DOMAIN ISOInstant
                 THEN [valid |-> TRUE, time |-> ISOInstant[text]]
                 ELSE [valid |-> FALSE, time |-> 0]

\* A plausible slip: an envelope of no known type is rejected with an error.
IgnoredEnvelopeThrows(st, message) == [state |-> st, notified |-> <<>>, threw |-> TRUE]

\* case 'pong': break, and default: console.log(...): nothing is dispatched.
IgnoredEnvelope(st, message) == [state |-> st, notified |-> <<>>, threw |-> FALSE]

\* { type, payload: message.data }: an envelope without data gives an action
\* whose payload is undefined.
ActionOf(type, message) ==
  IF "data" \in DOMAIN message THEN [type |-> type, payload |-> message.data]
  ELSE [type |-> type]

\* realtimeReducer reads action.payload.pair_id and action.payload.symbol: a
\* TypeError when the payload is undefined.
reducerThrows(action) ==
  action.type \in {"UPDATE_PAIR", "UPDATE_PRICE"} /\ "payload" \notin DOMAIN action

\* dispatch(action): the state the reducer returns, or the error it raises.
dispatch(st, action) ==
  IF reducerThrows(action) THEN [state |-> st, notified |-> <<>>, threw |-> TRUE]
  ELSE [state |-> realtimeReducer(st, action), notified |-> <<>>, threw |-> FALSE]

\* handleWebSocketMessage(message) on a host whose Notification constructor
\* throws or not (fails): the state after its dispatch, the notifications it
\* showed and whether an error was raised (a TypeError of
\* message.data.timestamp on an alert without data, or of the reducer, or the
\* one new Notification(...) throws).  The error escapes the effect, so the
\* action dispatched before it is never reduced into a committed state.
handleWebSocketMessage(st, message, fails) ==
  LET type == Get(message, "type")
  IN  CASE type = "pair_update" -> dispatch(st, ActionOf("UPDATE_PAIR", message))
        [] type = "alert" ->
             IF "data" \notin DOMAIN message
             THEN [state |-> st, notified |-> <<>>, threw |-> TRUE]
             ELSE IF permission = "granted" /\ fails
             THEN [state |-> st, notified |-> <<>>, threw |-> TRUE]
             ELSE [state |-> realtimeReducer(st,
                               [type |-> "ADD_ALERT",
                                payload |-> Spread(message.data,
                                              [id |-> now,
                                               timestamp |-> newDate(message.data.timestamp)])]),
                   notified |-> IF permission = "granted"
                                THEN <<[title |-> message.data.type,
                                        body |-> message.data.message]>>
                                ELSE <<>>,
                   threw |-> FALSE]
        [] type = "price_update" -> dispatch(st, ActionOf("UPDATE_PRICE", message))
        [] type = "system_status" -> dispatch(st, ActionOf("UPDATE_SYSTEM_STATUS", message))
        [] OTHER -> IgnoredEnvelope(st, message)

\* ------------------------------------------------------------- Init
\* After construction: the first render and its effects, which call connect().
InitHost(limit, payloads, notifications) ==
  /\ hostLimit = limit
  /\ rs = [s \in Sockets |-> IF s = 1 THEN "CONNECTING" ELSE "NONE"]
  /\ closing = [s \in Sockets |-> 0]
  /\ socket = 0 /\ socketNext = 1
  /\ isConnected = FALSE /\ isConnectedNext = FALSE
  /\ connectionError = NoError /\ connectionErrorNext = NoError
  /\ lastMessage = <<>> /\ lastMessageQueue = <<>>
  /\ reconnectTimeoutRef = 0
  /\ reconnectAttemptsRef = 0
  /\ timers = {}
  /\ pingIntervals = {}
  /\ state = initialState
  /\ now = 0
  /\ permission = notifications
  /\ feed = payloads
  /\ last = Obs("event")
  /\ calls = 0
  /\ mode = "auto"
  /\ sinceOpen = FALSE

\* On a host with the Notification API whose user has not been asked yet.
InitWith(limit, payloads) == InitHost(limit, payloads, "default")

Init == InitWith(MaxSockets, 0)

\* ------------------------------------------------- the caller's operations
\* connect() called by the hook's user.
Connect ==
  /\ calls < MaxCalls
  /\ SetConn(connect(Conn))
  /\ calls' = calls + 1
  /\ mode' = "auto"
  /\ UNCHANGED sinceOpen
  /\ last' = [Obs("connect") EXCEPT !.connects = 1]
  /\ UNCHANGED <<hostLimit, socket, isConnected, isConnectedNext, connectionError,
                 reconnectAttemptsRef, pingIntervals, msgVars, syncVars>>

\* disconnect() called by the hook's user: the callback of the last render.
Disconnect ==
  /\ calls < MaxCalls
  /\ SetConn(disconnect(Conn, socket))
  /\ calls' = calls + 1
  /\ mode' = IF timers # {} THEN "stopped" ELSE mode
  /\ UNCHANGED sinceOpen
  /\ last' = Obs("disconnect")
  /\ UNCHANGED <<hostLimit, socket, isConnected, isConnectedNext, connectionError,
                 reconnectAttemptsRef, pingIntervals, msgVars, syncVars>>

OutboundMessages == {[type |-> "start_monitoring"]}

\* sendMessage(message) called by the hook's user.
SendMessage(message) ==
  /\ LET r == sendMessage(socket, message)
     IN  last' = [Obs("sendMessage") EXCEPT !.arg = message, !.ret = r.ret,
                                            !.threw = r.threw, !.sent = r.sent]
  /\ UNCHANGED <<connVars, msgVars, syncVars, calls, mode, sinceOpen>>

\* A plausible slip: the envelope carries the identifier under the argument's
\* name.
subscribeToPairShorthand(sock, pairId) ==
  LET r == sendMessage(sock, [type |-> "subscribe_pair", pairId |-> pairId])
  IN  [ret |-> Undefined, threw |-> r.threw, sent |-> r.sent]

\* actions.subscribeToPair(pairId) of the render whose socket state was sock:
\* the result of sendMessage is discarded.
subscribeToPair(sock, pairId) ==
  LET r == sendMessage(sock, [type |-> "subscribe_pair", pair_id |-> pairId])
  IN  [ret |-> Undefined, threw |-> r.threw, sent |-> r.sent]

\* actions.subscribeToPair(pairId) called by a consumer of the context.
SubscribeToPair(pairId) ==
  /\ LET r == subscribeToPair(socket, pairId)
     IN  last' = [Obs("subscribeToPair") EXCEPT !.arg = pairId, !.ret = r.ret,
                                                !.threw = r.threw, !.sent = r.sent,
                                                !.before = state]
  /\ UNCHANGED <<connVars, msgVars, syncVars, calls, mode, sinceOpen>>

\* actions.startMonitoring() of the render whose socket state was sock: the
\* result of sendMessage is discarded.
startMonitoring(sock) ==
  LET r == sendMessage(sock, [type |-> "start_monitoring"])
  IN  [ret |-> Undefined, threw |-> r.threw, sent |-> r.sent]

\* actions.stopMonitoring(), likewise.
stopMonitoring(sock) ==
  LET r == sendMessage(sock, [type |-> "stop_monitoring"])
  IN  [ret |-> Undefined, threw |-> r.threw, sent |-> r.sent]

\* actions.startMonitoring() called by a consumer of the context.
StartMonitoring ==
  /\ LET r == startMonitoring(socket)
     IN  last' = [Obs("startMonitoring") EXCEPT !.ret = r.ret, !.threw = r.threw,
                                                !.sent = r.sent, !.before = state]
  /\ UNCHANGED <<connVars, msgVars, syncVars, calls, mode, sinceOpen>>

\* actions.stopMonitoring() called by a consumer of the context.
StopMonitoring ==
  /\ LET r == stopMonitoring(socket)
     IN  last' = [Obs("stopMonitoring") EXCEPT !.ret = r.ret, !.threw = r.threw,
                                               !.sent = r.sent, !.before = state]
  /\ UNCHANGED <<connVars, msgVars, syncVars, calls, mode, sinceOpen>>

\* ------------------------------------------------------ transport events
\* ws.onopen
OnOpen(s) ==
  /\ rs[s] = "CONNECTING"
  /\ rs' = [rs EXCEPT ![s] = "OPEN"]
  /\ isConnectedNext' = TRUE
  /\ connectionErrorNext' = NoError
  /\ reconnectAttemptsRef' = 0
  /\ pingIntervals' = pingIntervals \cup {s}
  /\ last' = Obs("event")
  /\ sinceOpen' = TRUE
  /\ UNCHANGED <<closing, hostLimit, socket, socketNext, isConnected, connectionError,
                 reconnectTimeoutRef, timers, msgVars, syncVars, calls, mode>>

\* A plausible slip: the tick sends without testing readyState and never
\* clears the interval.
PingTickUnchecked(s) ==
  /\ s \in pingIntervals
  /\ last' = [Obs("ping") EXCEPT
                 !.sent = IF rs[s] = "CONNECTING" THEN <<>>
                          ELSE wsSend(s, JSONstringify([type |-> "ping"])).sent]
  /\ UNCHANGED <<connVars, msgVars, syncVars, calls, mode, sinceOpen>>

\* The tick of the interval ws.onopen started for transport s.
PingTick(s) ==
  /\ s \in pingIntervals
  /\ IF rs[s] = "OPEN"
     THEN /\ last' = [Obs("ping") EXCEPT
                        !.sent = wsSend(s, JSONstringify([type |-> "ping"])).sent]
          /\ UNCHANGED pingIntervals
     ELSE /\ pingIntervals' = pingIntervals \ {s}
          /\ last' = Obs("ping")
  /\ UNCHANGED <<rs, closing, hostLimit, socket, socketNext, isConnected, isConnectedNext,
                 connectionError, connectionErrorNext, reconnectTimeoutRef,
                 reconnectAttemptsRef, timers, msgVars, syncVars, calls, mode, sinceOpen>>

\* ws.onerror
OnError(s) ==
  /\ rs[s] \in {"CONNECTING", "OPEN", "CLOSING"}
  /\ connectionErrorNext' = "WebSocket connection error"
  /\ last' = Obs("event")
  /\ UNCHANGED <<rs, closing, hostLimit, socket, socketNext, isConnected, isConnectedNext,
                 connectionError, reconnectTimeoutRef, reconnectAttemptsRef, timers,
                 pingIntervals, msgVars, syncVars, calls, mode, sinceOpen>>

\* The codes the close event of transport s may carry: the one close() fixed, a
\* failure before the open, or the peer's or the network's after it.
CloseCodesOf(s) ==
  CASE rs[s] = "CLOSING"    -> {closing[s]}
    [] rs[s] = "CONNECTING" -> {1006}
    [] OTHER                -> CloseCodes

Reconnects(code) ==
  code # NormalClosure /\ reconnectAttemptsRef < maxReconnectAttempts

\* Math.pow(2, reconnectAttemptsRef.current) * 1000
Backoff(attempts) == Pow2(attempts) * 1000

\* ws.onclose
OnClose(s, code) ==
  /\ rs[s] \in {"CONNECTING", "OPEN", "CLOSING"}
  /\ code \in CloseCodesOf(s)
  /\ rs' = [rs EXCEPT ![s] = "CLOSED"]
  /\ closing' = [closing EXCEPT ![s] = 0]
  /\ isConnectedNext' = FALSE
  /\ socketNext' = 0
  /\ IF Reconnects(code)
     THEN /\ timers' = timers \cup {s}
          /\ reconnectTimeoutRef' = s
          /\ last' = [Obs("close") EXCEPT !.arg = code,
                                          !.delay = Backoff(reconnectAttemptsRef)]
          /\ sinceOpen' = FALSE
          /\ UNCHANGED mode
     ELSE /\ UNCHANGED <<timers, reconnectTimeoutRef, sinceOpen>>
          /\ last' = [Obs("close") EXCEPT !.arg = code]
          /\ mode' = IF code # NormalClosure THEN "exhausted" ELSE mode
  /\ UNCHANGED <<hostLimit, socket, isConnected, connectionError, connectionErrorNext,
                 reconnectAttemptsRef, pingIntervals, msgVars, syncVars, calls>>

\* The timeout ws.onclose of transport s scheduled.
ReconnectTimer(s) ==
  /\ s \in timers
  /\ reconnectAttemptsRef' = reconnectAttemptsRef + 1
  /\ SetConn(connect([Conn EXCEPT !.timers = @ \ {s}]))
  /\ last' = [Obs("event") EXCEPT !.connects = 1]
  /\ UNCHANGED <<hostLimit, socket, isConnected, isConnectedNext, connectionError,
                 pingIntervals, msgVars, syncVars, calls, mode, sinceOpen>>

\* ------------------------------------------------------------- render
NeedsRender ==
  \/ socketNext # socket
  \/ isConnectedNext # isConnected
  \/ connectionErrorNext # connectionError
  \/ lastMessageQueue # <<>>

\* Whether new Notification(...) throws, on a host that lets the page reach it
\* (some hosts grant the permission and allow notifications only through a
\* service worker, so that the constructor throws).
ConstructorOutcomes == IF permission = "granted" THEN BOOLEAN ELSE {FALSE}

\* A render commits the pending state; then the effects whose dependencies
\* changed run: the hook's [connect, disconnect] effect when the socket state
\* changed (the cleanup is the disconnect of the previous render).
Render ==
  /\ NeedsRender
  /\ socket' = socketNext
  /\ isConnected' = isConnectedNext
  /\ connectionError' = connectionErrorNext
  /\ IF socketNext # socket
     THEN SetConn(connect(disconnect(Conn, socket)))
     ELSE UNCHANGED <<rs, closing, timers, reconnectTimeoutRef, socketNext,
                      connectionErrorNext>>
  /\ IF lastMessageQueue # <<>>
     THEN \E fails \in ConstructorOutcomes :
          LET message == lastMessageQueue[Len(lastMessageQueue)]
              h == handleWebSocketMessage(state, message, fails)
          IN  /\ lastMessage' = message
              /\ lastMessageQueue' = <<>>
              /\ state' = h.state
              /\ last' = [Obs("render") EXCEPT
                            !.connects = IF socketNext # socket THEN 1 ELSE 0,
                            !.before = state,
                            !.waiting = lastMessageQueue,
                            !.applied = <<message>>,
                            !.notified = h.notified,
                            !.threw = h.threw]
     ELSE /\ UNCHANGED <<lastMessage, lastMessageQueue, state>>
          /\ last' = [Obs("render") EXCEPT
                        !.connects = IF socketNext # socket THEN 1 ELSE 0]
  /\ UNCHANGED <<hostLimit, isConnectedNext, reconnectAttemptsRef, pingIntervals,
                 now, permission, feed, calls, mode, sinceOpen>>

\* ---------------------------------------------------------- the feed
\* A plausible slip: JSON.parse outside the try block.
onmessageUncaught(queue, payload) ==
  LET data == JSONparse(payload)
  IN  IF data.threw THEN [queue |-> queue, threw |-> TRUE]
      ELSE [queue |-> Append(queue, data.value), threw |-> FALSE]

\* The body of ws.onmessage: the pending setLastMessage calls after it, and
\* whether an error escaped it.  The catch logs the parse error.
onmessage(queue, payload) ==
  LET data == JSONparse(payload)
  IN  IF data.threw THEN [queue |-> queue, threw |-> FALSE]
      ELSE [queue |-> Append(queue, data.value), threw |-> FALSE]

\* ws.onmessage: the payload parsed is queued as the next lastMessage.
OnMessage(s, payload) ==
  /\ rs[s] = "OPEN" \/ (rs[s] = "CLOSING" /\ closing[s] = NormalClosure)
  /\ feed > 0
  /\ Len(lastMessageQueue) < MaxBurst
  /\ feed' = feed - 1
  /\ LET r == onmessage(lastMessageQueue, payload)
     IN  /\ lastMessageQueue' = r.queue
         /\ last' = [Obs("message") EXCEPT !.arg = payload, !.threw = r.threw]
  /\ UNCHANGED <<connVars, lastMessage, state, now, permission, calls, mode, sinceOpen>>

\* A plausible slip: the action type is misspelt, so the reducer's default
\* case takes it.
clearAlertsMistyped(st) == realtimeReducer(st, [type |-> "CLEAR_ALERT"])

\* actions.clearAlerts(): dispatch({ type: ActionTypes.CLEAR_ALERTS })
clearAlerts(st) == realtimeReducer(st, [type |-> "CLEAR_ALERTS"])

\* actions.clearAlerts() called by a consumer of the context.
ClearAlerts ==
  /\ state' = clearAlerts(state)
  /\ last' = [Obs("clearAlerts") EXCEPT !.before = state]
  /\ UNCHANGED <<connVars, msgVars, now, permission, feed, calls, mode, sinceOpen>>

\* "absent": the host has no Notification global; else Notification.permission.
Permissions == {"absent", "default", "granted", "denied"}
\* What Notification.requestPermission() resolves to: the user's answer, or
\* "default" when the prompt is dismissed.
Answers == {"granted", "denied", "default"}

\* actions.requestNotificationPermission() on a host whose permission is perm
\* and whose user gives answer if asked: what the promise resolves to, whether
\* it rejects instead, and the permission afterwards.  With no Notification
\* global the first test fails and the last line reads Notification.permission,
\* a ReferenceError.
requestNotificationPermission(perm, answer) ==
  IF perm # "absent" /\ perm = "default"
  THEN [ret |-> (answer = "granted"), threw |-> FALSE, permission |-> answer]
  ELSE IF perm = "absent"
       THEN [ret |-> FALSE, threw |-> TRUE, permission |-> perm]
       ELSE [ret |-> (perm = "granted"), threw |-> FALSE, permission |-> perm]

\* actions.requestNotificationPermission() called by a consumer of the context.
RequestNotificationPermission(answer) ==
  /\ LET r == requestNotificationPermission(permission, answer)
     IN  /\ permission' = r.permission
         /\ last' = [Obs("requestNotificationPermission") EXCEPT
                        !.arg = permission, !.ret = r.ret, !.threw = r.threw]
  /\ UNCHANGED <<connVars, msgVars, state, now, feed, calls, mode, sinceOpen>>

\* The host clock advances.
ClockTick ==
  /\ now < MaxClock
  /\ now' = now + 1
  /\ last' = Obs("event")
  /\ UNCHANGED <<connVars, msgVars, state, permission, feed, calls, mode, sinceOpen>>

AlertData == [type |-> "entry", message |-> "zscore above 2",
              timestamp |-> "2024-09-26T10:30:15Z", pair_id |-> "P1"]
AlertEnvelope == [type |-> "alert", data |-> AlertData]

Envelopes ==
  { [type |-> "pair_update", data |-> [pair_id |-> "P1", zscore |-> 1]],
    [type |-> "pair_update", data |-> [pair_id |-> "P1", status |-> "open"]],
    [type |-> "pair_update", data |-> [pair_id |-> "P2", zscore |-> 2]],
    AlertEnvelope,
    [type |-> "price_update", data |-> [symbol |-> "7203", price |-> 2850, volume |-> 100]],
    [type |-> "price_update", data |-> [symbol |-> "7203", price |-> 2875]],
    [type |-> "system_status", data |-> [monitoring |-> TRUE]],
    [type |-> "pong"],
    [type |-> "backtest_done"] }

\* Valid JSON objects that name a type and carry no data.
Malformed ==
  { [type |-> "pair_update"], [type |-> "alert"], [type |-> "price_update"],
    [type |-> "system_status"] }

Garbage == [text |-> "not json", value |-> <<>>]
Payloads == {JSONstringify(e) : e \in Envelopes} \cup {Garbage}

PairIds == {e.data.pair_id : e \in {x \in Envelopes : x.type = "pair_update"}}
Symbols == {e.data.symbol : e \in {x \in Envelopes : x.type = "price_update"}}

\* ------------------------------------------------------------- Next
Next ==
  \/ Connect
  \/ Disconnect
  \/ \E m \in OutboundMessages : SendMessage(m)
  \/ \E s \in Sockets : OnOpen(s)
  \/ \E s \in Sockets : PingTick(s)
  \/ \E s \in Sockets : OnError(s)
  \/ \E s \in Sockets, code \in CloseCodes : OnClose(s, code)
  \/ \E s \in Sockets : ReconnectTimer(s)
  \/ Render

Spec == Init /\ [][Next]_vars

\* The hook left to itself against an endpoint that is down: no transport
\* opens and the hook's user calls nothing.
InitBackoff == InitWith(BackoffSockets, 0)

NextBackoff ==
  \/ \E s \in Sockets, code \in CloseCodes : OnClose(s, code)
  \/ \E s \in Sockets : ReconnectTimer(s)
  \/ Render

SpecBackoff == InitBackoff /\ [][NextBackoff]_vars

\* The synchronizer on one feed.
InitSync == InitWith(SyncSockets, MaxFeed)

NextSync ==
  \/ \E s \in Sockets : OnOpen(s)
  \/ \E s \in Sockets, p \in Payloads : OnMessage(s, p)
  \/ ClearAlerts
  \/ \E id \in {"P1", "P2"} : SubscribeToPair(id)
  \/ Render

SpecSync == InitSync /\ [][NextSync]_vars

\* The synchronizer on a feed of alerts.
InitAlerts == InitWith(SyncSockets, AlertFeed)

NextAlerts ==
  \/ \E s \in Sockets : OnOpen(s)
  \/ \E s \in Sockets : OnMessage(s, JSONstringify(AlertEnvelope))
  \/ ClearAlerts
  \/ Render

SpecAlerts == InitAlerts /\ [][NextAlerts]_vars

\* The synchronizer on a feed of alerts, on any host: with or without the
\* Notification API, and whatever its permission.
InitNotify == \E p \in Permissions : InitHost(SyncSockets, MaxFeed, p)

NextNotify ==
  \/ \E s \in Sockets : OnOpen(s)
  \/ \E s \in Sockets : OnMessage(s, JSONstringify(AlertEnvelope))
  \/ \E a \in Answers : RequestNotificationPermission(a)
  \/ ClockTick
  \/ Render

SpecNotify == InitNotify /\ [][NextNotify]_vars

\* The synchronizer on a feed that mixes envelopes without data with good ones.
InitMalformed == InitWith(SyncSockets, MaxFeed)

NextMalformed ==
  \/ \E s \in Sockets : OnOpen(s)
  \/ \E s \in Sockets, e \in Malformed \cup {AlertEnvelope} :
        OnMessage(s, JSONstringify(e))
  \/ Render

SpecMalformed == InitMalformed /\ [][NextMalformed]_vars

\* The command API of the context against an endpoint that comes and goes.
InitCommands == InitWith(MaxSockets, 0)

NextCommands ==
  \/ \E s \in Sockets : OnOpen(s)
  \/ \E s \in Sockets, code \in CloseCodes : OnClose(s, code)
  \/ \E s \in Sockets : ReconnectTimer(s)
  \/ StartMonitoring
  \/ StopMonitoring
  \/ \E id \in PairIds : SubscribeToPair(id)
  \/ Render

SpecCommands == InitCommands /\ [][NextCommands]_vars

\* =============================================================== claims

\* C1 (SpecAlerts): in every reachable state, after any sequence of inbound
\* alert envelopes and clearAlerts calls, the alerts sequence has at most 50
\* entries.
C1_AlertsAtMost50 == Len(state.alerts) <= 50

\* C1's case: an alert was applied to a full sequence of 50 and 50 are kept.
C1_Witness ==
  /\ last.op = "render"
  /\ last.applied # <<>>
  /\ Len(last.before.alerts) = 50
  /\ Len(state.alerts) = 50

\* C2 (SpecBackoff: no explicit connect() / disconnect(), no transport opens,
\* every close is abnormal): the k-th close in a row (k <= 5) schedules a
\* reconnect with a delay of 2^(k-1) seconds.
C2_BackoffSchedule ==
  (last.op = "close" /\ calls = 0 /\ Cardinality(Closed(rs)) <= maxReconnectAttempts)
    => last.delay = Pow2(Cardinality(Closed(rs)) - 1) * 1000

\* C3 (SpecBackoff): once a transport has closed abnormally with the attempt
\* counter at 5 (the reconnects are used up) and no transport is left
\* connecting or open, no operation calls connect() until the hook's user does.
C3_NoConnectAfterExhaustion ==
  [][ (mode = "exhausted" /\ Live(rs) = {})
        => (last'.connects = 0 \/ last'.op = "connect") ]_vars

\* C4 (Spec): once disconnect() was called with a reconnect timer pending, no
\* operation calls connect() until the hook's user does.
C4_NoConnectAfterDisconnect ==
  mode = "stopped" => (last.connects = 0 \/ last.op = "connect")

\* C5 (Spec): connect() called while a transport of the hook is connecting or
\* open opens no second transport.
C5_ConnectIsNoOpWhenLive ==
  [][ (last'.op = "connect" /\ calls' = calls + 1 /\ Live(rs) # {}) => rs' = rs ]_vars

\* C6 (Spec): in every reachable state at most one transport the hook created
\* is connecting or open.
C6_AtMostOneLive == Cardinality(Live(rs)) <= 1

\* C7 (Spec): sendMessage(message) returns true exactly when the socket it
\* holds is open, then sends the serialized message once on it, and otherwise
\* sends nothing; it never throws.
C7_SendIffOpen ==
  last.op = "sendMessage" =>
    /\ ~last.threw
    /\ last.ret = (socket # 0 /\ rs[socket] = "OPEN")
    /\ last.ret => last.sent = <<[sock |-> socket, data |-> JSONstringify(last.arg)]>>
    /\ ~last.ret => last.sent = <<>>

\* C7's case: a send on the open socket the hook holds.
C7_Witness ==
  /\ last.op = "sendMessage"
  /\ last.ret
  /\ Len(last.sent) = 1
  /\ JSONparse(last.sent[1].data).value = [type |-> "start_monitoring"]

\* C8 (Spec): when disconnect() has returned, no transport the hook created is
\* connecting or open.
C8_DisconnectClosesAll == last.op = "disconnect" => Live(rs) = {}

\* C9 (Spec): when disconnect() has returned, no reconnect timer is pending
\* and no heartbeat interval of a transport that is no longer connecting or
\* open (the connection disconnect() closed) is pending.
C9_DisconnectCancelsTimers ==
  last.op = "disconnect" =>
    (timers = {} /\ \A s \in pingIntervals : s \in Live(rs))

\* C10 (SpecSync): a render hands to handleWebSocketMessage every envelope
\* that was delivered since the previous one, each once and in delivery order.
C10_AppliesEveryEnvelope == last.op = "render" => last.applied = last.waiting

\* The data of the envelopes of one type in a sequence of envelopes whose
\* data carries value id under key.
RECURSIVE DataOf(_, _, _, _)
DataOf(envs, type, key, id) ==
  IF envs = <<>> THEN <<>>
  ELSE LET e == Head(envs)
           rest == DataOf(Tail(envs), type, key, id)
       IN  IF Get(e, "type") = type /\ e.data[key] = id
           THEN <<e.data>> \o rest ELSE rest

\* The shallow merge of payloads, in order, into an entry: a later value wins
\* per field, a field a later payload lacks is kept.
RECURSIVE ShallowMerge(_, _)
ShallowMerge(entry, payloads) ==
  IF payloads = <<>> THEN entry
  ELSE LET pl == Head(payloads)
       IN  ShallowMerge([k \in (DOMAIN entry) \cup (DOMAIN pl) |->
                            IF k \in DOMAIN pl THEN pl[k] ELSE entry[k]],
                        Tail(payloads))

\* C11 (SpecSync): after the synchronizer has processed the envelopes received
\* since its previous run, the entry of every pair identifier is the shallow
\* merge, in arrival order, of the entry before and all pair_update payloads
\* received for that identifier (created if absent); an identifier that
\* received none keeps its entry.
C11_PairIsMergeOfReceived ==
  last.op = "render" /\ last.waiting # <<>> =>
    \A id \in PairIds :
      LET received == DataOf(last.waiting, "pair_update", "pair_id", id)
          had == id \in DOMAIN last.before.pairs
          has == id \in DOMAIN state.pairs
      IN  IF received = <<>>
          THEN has = had /\ (has => state.pairs[id] = last.before.pairs[id])
          ELSE has /\ state.pairs[id] =
                        ShallowMerge(IF had THEN last.before.pairs[id] ELSE <<>>, received)

\* The record of an alert envelope received at clock reading clock: its data,
\* the timestamp as the instant its text names, and an identifier.
AlertRecordOf(data, clock) ==
  [k \in (DOMAIN data) \cup {"id", "timestamp"} |->
     CASE k = "id" -> clock
       [] k = "timestamp" -> [valid |-> TRUE, time |-> ISOInstant[data.timestamp]]
       [] OTHER -> data[k]]

\* The records of the alert envelopes in a sequence of envelopes, newest first.
RECURSIVE NewestFirst(_, _)
NewestFirst(envs, clock) ==
  IF envs = <<>> THEN <<>>
  ELSE NewestFirst(Tail(envs), clock) \o
       (IF Get(Head(envs), "type") = "alert"
        THEN <<AlertRecordOf(Head(envs).data, clock)>> ELSE <<>>)

\* C12 (SpecSync): after the synchronizer has processed the envelopes received
\* since its previous run, the alerts sequence is the records of the alert
\* envelopes received, newest first, followed by the earlier records in their
\* order, cut to the 50 most recent.
C12_AlertsAreReceivedNewestFirst ==
  last.op = "render" /\ last.waiting # <<>> =>
    state.alerts = SliceFront(NewestFirst(last.waiting, now) \o last.before.alerts, 50)

\* The last element of a nonempty sequence.
Last(seq) == seq[Len(seq)]

\* C13 (SpecSync): after the synchronizer has processed the envelopes received
\* since its previous run, the price entry of every symbol is exactly the
\* payload of the last price_update received for it, and the entry of a
\* symbol that received none is as before.
C13_PriceIsLastReceived ==
  last.op = "render" /\ last.waiting # <<>> =>
    \A sym \in Symbols :
      LET received == DataOf(last.waiting, "price_update", "symbol", sym)
          had == sym \in DOMAIN last.before.prices
          has == sym \in DOMAIN state.prices
      IN  IF received = <<>>
          THEN has = had /\ (has => state.prices[sym] = last.before.prices[sym])
          ELSE has /\ state.prices[sym] = Last(received)

\* The envelope types handleWebSocketMessage dispatches an action for.
DispatchedTypes == {"pair_update", "alert", "price_update", "system_status"}

\* C14 (SpecSync): handling an envelope whose type is pong or unknown throws
\* nothing and leaves pairs, alerts, prices and systemStatus as they were; and
\* when such an envelope was the last one handled, the envelope handled next
\* is still dispatched (a price_update is stored, an alert recorded).
C14_IgnoredEnvelopeIsInert ==
  [][ (last'.op = "render" /\ last'.applied # <<>>) =>
        LET message == last'.applied[1]
        IN  /\ Get(message, "type") \notin DispatchedTypes =>
                  (~last'.threw /\ state' = state)
            /\ (lastMessage # <<>> /\ Get(lastMessage, "type") \notin DispatchedTypes) =>
                  /\ ~last'.threw
                  /\ Get(message, "type") = "price_update" =>
                        state'.prices[message.data.symbol] = message.data
                  /\ Get(message, "type") = "alert" =>
                        (state'.alerts # <<>> /\
                         Head(state'.alerts) = AlertRecordOf(message.data, now)) ]_vars

\* C14's case: an envelope of unknown type was handled on a snapshot that
\* already held data, and the snapshot is as before.
C14_Witness ==
  /\ last.op = "render"
  /\ last.applied = <<[type |-> "backtest_done"]>>
  /\ ~last.threw
  /\ last.before # initialState
  /\ state = last.before

\* C15 (SpecSync): a received payload that fails to parse changes neither
\* lastMessage (committed or pending), nor the snapshot, nor isConnected, nor
\* any transport, and no error escapes ws.onmessage; and a well-formed
\* payload received right after it is delivered as the next lastMessage.
C15_UnparsablePayloadIsDropped ==
  [][ last'.op = "message" =>
        /\ JSONparse(last'.arg).threw =>
              /\ ~last'.threw
              /\ lastMessage' = lastMessage /\ lastMessageQueue' = lastMessageQueue
              /\ state' = state
              /\ isConnected' = isConnected /\ isConnectedNext' = isConnectedNext
              /\ rs' = rs /\ socket' = socket /\ socketNext' = socketNext
        /\ (last.op = "message" /\ JSONparse(last.arg).threw
              /\ ~JSONparse(last'.arg).threw) =>
              lastMessageQueue' = Append(lastMessageQueue, JSONparse(last'.arg).value) ]_vars

\* C15's case: an unparsable payload arrived while a parsed envelope was
\* waiting, and the envelope is still waiting.
C15_Witness ==
  /\ last.op = "message"
  /\ JSONparse(last.arg).threw
  /\ ~last.threw
  /\ lastMessageQueue # <<>>

\* The frame subscribeToPair(id) is to send on the socket the provider holds.
SubscribeFrame(id) ==
  [sock |-> socket, data |-> JSONstringify([type |-> "subscribe_pair", pair_id |-> id])]

\* C16 as stated (SpecSync): subscribeToPair(id) sends exactly one envelope
\* {type: subscribe_pair, pair_id: id} and leaves the snapshot unchanged.
C16_SubscribeSendsOne ==
  last.op = "subscribeToPair" =>
    (last.sent = <<SubscribeFrame(last.arg)>> /\ state = last.before)

\* C16 amended (SpecSync): subscribeToPair(id) leaves the snapshot unchanged
\* and does not throw; it sends exactly one envelope {type: subscribe_pair,
\* pair_id: id} when the socket the provider holds is open, and none otherwise.
C16_SubscribeSendsOneWhenOpen ==
  last.op = "subscribeToPair" =>
    /\ state = last.before
    /\ ~last.threw
    /\ last.sent = IF socket # 0 /\ rs[socket] = "OPEN"
                   THEN <<SubscribeFrame(last.arg)>> ELSE <<>>

\* C16's case: a subscription sent on the open socket while the snapshot
\* holds data, the frame parsing back to the envelope.
C16_Witness ==
  /\ last.op = "subscribeToPair"
  /\ Len(last.sent) = 1
  /\ JSONparse(last.sent[1].data).value = [type |-> "subscribe_pair", pair_id |-> "P1"]
  /\ state # initialState

\* C17 (SpecNotify): requestNotificationPermission() never rejects; on a host
\* without the Notification API it resolves to false, and otherwise to true
\* exactly when the permission is granted after the call.
C17_PermissionRequestResolves ==
  last.op = "requestNotificationPermission" =>
    /\ ~last.threw
    /\ last.ret = (last.arg # "absent" /\ permission = "granted")

\* C18 (SpecBackoff): when a transport has closed abnormally with the attempt
\* counter at 5, so that the close schedules no reconnect, the connectivity
\* error signal is set (it is not null once the close event is handled).
C18_ExhaustionIsSurfaced ==
  (last.op = "close" /\ last.delay = 0 /\ mode = "exhausted"
     /\ reconnectAttemptsRef = maxReconnectAttempts)
    => connectionErrorNext # NoError

\* C19 (SpecSync): clearAlerts() leaves the alerts sequence empty and pairs,
\* prices and systemStatus as they were, and sends nothing on any transport,
\* with the connection open or not.
C19_ClearAlertsIsLocal ==
  last.op = "clearAlerts" =>
    /\ state.alerts = <<>>
    /\ state.pairs = last.before.pairs
    /\ state.prices = last.before.prices
    /\ state.systemStatus = last.before.systemStatus
    /\ last.sent = <<>>

\* C19's case: alerts cleared on an open connection while the snapshot holds
\* an alert and a price.
C19_Witness ==
  /\ last.op = "clearAlerts"
  /\ last.before.alerts # <<>>
  /\ last.before.prices # <<>>
  /\ state.alerts = <<>>
  /\ state.prices = last.before.prices
  /\ socket # 0 /\ rs[socket] = "OPEN"

\* C20 (Spec): the close event of a transport, while a transport the hook
\* created later is connecting or open, leaves the stored handle of the later
\* one in place, does not set isConnected to false if the later one is open,
\* and schedules no reconnect.
C20_StaleCloseIsIgnored ==
  [][ \A s \in Sockets :
        (last'.op = "close" /\ rs[s] # "CLOSED" /\ rs'[s] = "CLOSED"
           /\ \E n \in Live(rs) : n > s)
          => /\ (socketNext # 0 /\ socketNext > s) => socketNext' = socketNext
             /\ (\E n \in Sockets : n > s /\ rs[n] = "OPEN")
                   => isConnectedNext' = isConnectedNext
             /\ timers' = timers ]_vars

\* C21 (Spec): once the pending state updates are rendered, isConnected is
\* true exactly when the socket the hook holds is open, and a sendMessage call
\* returns true exactly when isConnected is true.
C21_IsConnectedIffOpen ==
  ~NeedsRender =>
    /\ isConnected = (socket # 0 /\ rs[socket] = "OPEN")
    /\ last.op = "sendMessage" => last.ret = isConnected

\* C22 (Spec): the close event of a transport schedules no reconnect timer
\* when its code is 1000, and exactly one when its code is another and the
\* attempt counter is below 5; and the close event of a transport that
\* disconnect() closed, also while it was still connecting, schedules none.
C22_OnlyNormalCloseStops ==
  [][ \A s \in Sockets :
        (last'.op = "close" /\ rs[s] # "CLOSED" /\ rs'[s] = "CLOSED") =>
          /\ last'.arg = NormalClosure => timers' = timers
          /\ (last'.arg # NormalClosure /\ reconnectAttemptsRef < maxReconnectAttempts)
                => (s \notin timers /\ timers' = timers \cup {s})
          /\ rs[s] = "CLOSING" => timers' = timers ]_vars

\* The ping frame on transport s.
PingFrame(s) == [sock |-> s, data |-> JSONstringify([type |-> "ping"])]

\* C23 (Spec): a tick of the heartbeat interval of a transport sends one ping
\* on that transport and on no other if the transport is open at the tick;
\* otherwise it sends nothing and the interval is cleared, so that no later
\* tick of it exists.
C23_PingOnlyWhileOpen ==
  [][ last'.op = "ping" =>
        \E s \in pingIntervals :
          IF rs[s] = "OPEN"
          THEN last'.sent = <<PingFrame(s)>> /\ pingIntervals' = pingIntervals
          ELSE last'.sent = <<>> /\ pingIntervals' = pingIntervals \ {s} ]_vars

\* C23's case: the interval of a transport that is no longer open has
\* cleared itself at its tick without sending, while the interval of another,
\* open transport is still running.
C23_Witness ==
  /\ last.op = "ping"
  /\ last.sent = <<>>
  /\ \E s \in Sockets : rs[s] \in {"CLOSING", "CLOSED"} /\ s \notin pingIntervals
  /\ \E n \in pingIntervals : rs[n] = "OPEN"

\* A step in which a transport opens.
OpenStep == \E s \in Sockets : rs[s] = "CONNECTING" /\ rs'[s] = "OPEN"

\* C24 (Spec): the attempt counter is set to 0 by every open of a transport
\* and changes otherwise only when a reconnect timer fires (connect(),
\* disconnect(), error events and messages leave it alone); and the reconnect
\* scheduled first after a transport has opened has a delay of 1 s.
C24_CounterResetOnOpen ==
  [][ /\ OpenStep => reconnectAttemptsRef' = 0
      /\ (reconnectAttemptsRef' # reconnectAttemptsRef /\ ~OpenStep) =>
            /\ reconnectAttemptsRef' = reconnectAttemptsRef + 1
            /\ \E s \in timers : s \notin timers'
      /\ (last'.op = "close" /\ sinceOpen /\ last'.delay > 0) => last'.delay = 1000 ]_vars

\* C25 (SpecNotify): the alert records in the alerts sequence (newest first)
\* have identifiers in receipt order: a record received later has a strictly
\* greater identifier than one received earlier, so any two are distinct.
C25_AlertIdsInReceiptOrder ==
  \A i \in 1..Len(state.alerts) : \A j \in 1..Len(state.alerts) :
    i < j => state.alerts[i].id > state.alerts[j].id

\* The commands of the context that send an envelope.
Commands == {"startMonitoring", "stopMonitoring", "subscribeToPair"}
\* A JavaScript value a caller's test takes for true.
Truthy(v) == ToString(v) = "TRUE"

\* C26 (SpecCommands): a command that sends an envelope never throws, and its
\* result tells its caller whether the envelope was dispatched: the result is
\* negative when the send was dropped and positive when a frame was sent.
C26_CommandTellsDispatch ==
  last.op \in Commands =>
    /\ ~last.threw
    /\ Truthy(last.ret) <=> last.sent # <<>>

\* C27 (SpecMalformed): applying a parsed envelope never raises an error, and
\* an envelope that names the type pair_update, alert or price_update and has
\* no data leaves the snapshot as it was.
C27_MalformedEnvelopeIsDropped ==
  (last.op = "render" /\ last.applied # <<>>) =>
    /\ ~last.threw
    /\ (last.applied[1] \in Malformed) => state = last.before

\* C28 (SpecNotify): a render that applies an alert envelope shows a
\* notification exactly when the host has the Notification API and its
\* permission is granted; the snapshot after it is the one before it with the
\* alert's record put at index 0, whether or not a notification was shown.
C28_NotifyIffGranted ==
  (last.op = "render" /\ last.applied # <<>> /\ last.applied[1] = AlertEnvelope) =>
    /\ last.notified # <<>> <=> permission = "granted"
    /\ state = [last.before EXCEPT
                  !.alerts = <<AlertRecordOf(AlertData, now)>> \o
                             SliceFront(last.before.alerts, KeepAlerts)]

\* C29 (Spec): after the mount, connect() is invoked only by a reconnect timer
\* or by an explicit caller: a render, which commits the socket that
\* connect() stored, does not re-run the mount effect, so it creates no
\* transport and closes none.
C29_RenderDoesNotReconnect ==
  [][ Render =>
        /\ last'.connects = 0
        /\ rs' = rs ]_vars

\* C30 (Spec): in every reachable state the reconnection attempt counter is
\* within 0..maxReconnectAttempts and at most one reconnect timer is pending.
C30_CounterAndTimerBounded ==
  /\ reconnectAttemptsRef \in 0..maxReconnectAttempts
  /\ Cardinality(timers) <= 1

====
